---------------------------- MODULE Spec2Model ----------------------------
(***************************************************************************)
(* Model of hatch_generator (src/src/main.cpp): the hatch line generator   *)
(* of main() and the Cohen-Sutherland clipper clipLine().                  *)
(*                                                                         *)
(* Numbers.  The program computes in double.  A double is modelled by an   *)
(* exact rational <<n, d>> in lowest terms with d > 0; a division by zero  *)
(* gives <<1,0>>, <<-1,0>> (the infinities) or <<0,0>> (NaN), with the     *)
(* IEEE comparison rules (every comparison with NaN is false).  Rounding   *)
(* of the finite results is not modelled.                                  *)
(***************************************************************************)
EXTENDS Integers, Sequences, FiniteSets, TLC

VARIABLES
    pc,            \* control point of main / clipLine
    argAngle,      \* argv: <<a>> when "--angle a" is given, <<>> otherwise
    argStep,       \* argv: <<s>> when "--step s" is given, <<>> otherwise
    angleDegrees,  \* main: double angleDegrees (integer valued here)
    step,          \* main: double step
    bottomLeft,    \* main: Point_2 bottomLeft
    topRight,      \* main: Point_2 topRight
    hatchLines,    \* main: Lines hatchLines
    y,             \* main: loop variable of the horizontal families
    x,             \* main: loop variable of the vertical family
    offset,        \* main: loop variable of the general family
    line,          \* the Line_2 handed to clipLine by reference
    x0, y0, x1, y1,      \* clipLine: working endpoints
    outcode0, outcode1,  \* clipLine: their outcodes
    accept,        \* clipLine: bool accept
    iter,          \* history: trim steps taken by the current call of clipLine
    exitCode       \* main: return value, -1 while running

vars == <<pc, argAngle, argStep, angleDegrees, step, bottomLeft, topRight,
          hatchLines, y, x, offset, line, x0, y0, x1, y1, outcode0, outcode1,
          accept, iter, exitCode>>

mainVars == <<argAngle, argStep, angleDegrees, step, bottomLeft, topRight,
              hatchLines, y, x, offset, exitCode>>

clipVars == <<x0, y0, x1, y1, outcode0, outcode1, accept, iter>>

----------------------------------------------------------------------------
(* Bounds of the model *)

\* clipLine harness: the rectangle's topRight ranges over RectMax+1 values per axis
RectMax == 2
\* clipLine harness: segment endpoints reach Margin beyond the rectangle's range
Margin == 1
\* main: integer steps 1..MaxStep are tried (besides 0, -1 and 3/2)
MaxStep == 3
\* main: input angles k*90 for k in -MaxQuarter..MaxQuarter are tried
MaxQuarter == 8

----------------------------------------------------------------------------
(* double arithmetic *)

Abs(n) == IF n < 0 THEN -n ELSE n

Sgn(n) == IF n < 0 THEN -1 ELSE IF n > 0 THEN 1 ELSE 0

RECURSIVE GCD(_, _)
GCD(a, b) == IF b = 0 THEN a ELSE GCD(b, a % b)

Norm(n, d) ==
    IF d = 0 THEN <<Sgn(n), 0>>
    ELSE LET g == GCD(Abs(n), Abs(d))
             s == IF d < 0 THEN -1 ELSE 1
         IN  <<(s * n) \div g, (s * d) \div g>>

R(i) == <<i, 1>>

NaN == <<0, 0>>

Add(a, b) == Norm(a[1] * b[2] + b[1] * a[2], a[2] * b[2])

Sub(a, b) == Norm(a[1] * b[2] - b[1] * a[2], a[2] * b[2])

Mul(a, b) == Norm(a[1] * b[1], a[2] * b[2])

Div(a, b) == Norm(a[1] * b[2] * Sgn(b[1]), a[2] * Abs(b[1]))

Neg(a) == <<-a[1], a[2]>>

Lt(a, b) ==
    IF a = NaN \/ b = NaN THEN FALSE
    ELSE IF a[2] = 0 /\ b[2] = 0 THEN a[1] < b[1]
    ELSE a[1] * b[2] < b[1] * a[2]

Gt(a, b) == Lt(b, a)

Le(a, b) == a # NaN /\ b # NaN /\ ~Lt(b, a)

Ge(a, b) == Le(b, a)

----------------------------------------------------------------------------
(* Point_2, Line_2 *)

Point_2(px, py) == [x |-> px, y |-> py]

Line_2(s, e) == [start |-> s, end |-> e]

----------------------------------------------------------------------------
(* enum OutCode and computeOutCode *)

INSIDE == 0
LEFT == 1
RIGHT == 2
BOTTOM == 4
TOP == 8

OutCodeBits == {LEFT, RIGHT, BOTTOM, TOP}

\* code & bit, for a single bit
HasBit(code, bit) == (code \div bit) % 2 = 1

\* a & b and a | b on outcodes
BitAnd(a, b) ==
    (IF HasBit(a, LEFT) /\ HasBit(b, LEFT) THEN LEFT ELSE 0)
  + (IF HasBit(a, RIGHT) /\ HasBit(b, RIGHT) THEN RIGHT ELSE 0)
  + (IF HasBit(a, BOTTOM) /\ HasBit(b, BOTTOM) THEN BOTTOM ELSE 0)
  + (IF HasBit(a, TOP) /\ HasBit(b, TOP) THEN TOP ELSE 0)

BitOr(a, b) ==
    (IF HasBit(a, LEFT) \/ HasBit(b, LEFT) THEN LEFT ELSE 0)
  + (IF HasBit(a, RIGHT) \/ HasBit(b, RIGHT) THEN RIGHT ELSE 0)
  + (IF HasBit(a, BOTTOM) \/ HasBit(b, BOTTOM) THEN BOTTOM ELSE 0)
  + (IF HasBit(a, TOP) \/ HasBit(b, TOP) THEN TOP ELSE 0)

\* mutant: the boundary of the rectangle counts as outside
computeOutCodeStrict(px, py, bl, tr) ==
    (IF Le(px, bl.x) THEN LEFT ELSE IF Ge(px, tr.x) THEN RIGHT ELSE 0)
  + (IF Le(py, bl.y) THEN BOTTOM ELSE IF Ge(py, tr.y) THEN TOP ELSE 0)

\* mutant: the RIGHT test is missing
computeOutCodeNoRight(px, py, bl, tr) ==
    (IF Lt(px, bl.x) THEN LEFT ELSE 0)
  + (IF Lt(py, bl.y) THEN BOTTOM ELSE IF Gt(py, tr.y) THEN TOP ELSE 0)

computeOutCode(px, py, bl, tr) ==
    (IF Lt(px, bl.x) THEN LEFT ELSE IF Gt(px, tr.x) THEN RIGHT ELSE 0)
  + (IF Lt(py, bl.y) THEN BOTTOM ELSE IF Gt(py, tr.y) THEN TOP ELSE 0)

----------------------------------------------------------------------------
(* clipLine *)

\* if (!(outcode0 | outcode1))
BothInside(o0, o1) == BitOr(o0, o1) = 0

\* mutant: rejects only when the two outcodes are equal
TriviallyOutsideEq(o0, o1) == o0 # 0 /\ o0 = o1

\* else if (outcode0 & outcode1)
TriviallyOutside(o0, o1) == BitAnd(o0, o1) # 0

\* int outcodeOut = outcode0 ? outcode0 : outcode1;
OutcodeOut(o0, o1) == IF o0 # 0 THEN o0 ELSE o1

\* the denominator of the branch the trim step takes for outcodeOut
Divisor(oc, X0, Y0, X1, Y1) ==
    IF HasBit(oc, TOP) \/ HasBit(oc, BOTTOM) THEN Sub(Y1, Y0) ELSE Sub(X1, X0)

\* mutant: the TOP and BOTTOM branches store the two results in the wrong
\* coordinates
TrimPointSwapped(oc, X0, Y0, X1, Y1, bl, tr) ==
    IF HasBit(oc, TOP) THEN
        Point_2(tr.y, Add(X0, Div(Mul(Sub(X1, X0), Sub(tr.y, Y0)), Sub(Y1, Y0))))
    ELSE IF HasBit(oc, BOTTOM) THEN
        Point_2(bl.y, Add(X0, Div(Mul(Sub(X1, X0), Sub(bl.y, Y0)), Sub(Y1, Y0))))
    ELSE IF HasBit(oc, RIGHT) THEN
        Point_2(tr.x, Add(Y0, Div(Mul(Sub(Y1, Y0), Sub(tr.x, X0)), Sub(X1, X0))))
    ELSE
        Point_2(bl.x, Add(Y0, Div(Mul(Sub(Y1, Y0), Sub(bl.x, X0)), Sub(X1, X0))))

\* mutant: the RIGHT branch interpolates against the left edge
TrimPointWrongEdge(oc, X0, Y0, X1, Y1, bl, tr) ==
    IF HasBit(oc, TOP) THEN
        Point_2(Add(X0, Div(Mul(Sub(X1, X0), Sub(tr.y, Y0)), Sub(Y1, Y0))), tr.y)
    ELSE IF HasBit(oc, BOTTOM) THEN
        Point_2(Add(X0, Div(Mul(Sub(X1, X0), Sub(bl.y, Y0)), Sub(Y1, Y0))), bl.y)
    ELSE IF HasBit(oc, RIGHT) THEN
        Point_2(tr.x, Add(Y0, Div(Mul(Sub(Y1, Y0), Sub(bl.x, X0)), Sub(X1, X0))))
    ELSE
        Point_2(bl.x, Add(Y0, Div(Mul(Sub(Y1, Y0), Sub(bl.x, X0)), Sub(X1, X0))))

\* the point (x, y) of the trim step, bits tested in the order TOP, BOTTOM,
\* RIGHT, LEFT
TrimPoint(oc, X0, Y0, X1, Y1, bl, tr) ==
    LET dv == Divisor(oc, X0, Y0, X1, Y1)
    IN  IF HasBit(oc, TOP) THEN
            Point_2(Add(X0, Div(Mul(Sub(X1, X0), Sub(tr.y, Y0)), dv)), tr.y)
        ELSE IF HasBit(oc, BOTTOM) THEN
            Point_2(Add(X0, Div(Mul(Sub(X1, X0), Sub(bl.y, Y0)), dv)), bl.y)
        ELSE IF HasBit(oc, RIGHT) THEN
            Point_2(tr.x, Add(Y0, Div(Mul(Sub(Y1, Y0), Sub(tr.x, X0)), dv)))
        ELSE
            Point_2(bl.x, Add(Y0, Div(Mul(Sub(Y1, Y0), Sub(bl.x, X0)), dv)))

\* lines 108-113: copy the endpoints, compute both outcodes, accept = false
ClipEntry ==
    /\ pc = "clip_call"
    /\ x0' = line.start.x
    /\ y0' = line.start.y
    /\ x1' = line.end.x
    /\ y1' = line.end.y
    /\ outcode0' = computeOutCode(line.start.x, line.start.y, bottomLeft, topRight)
    /\ outcode1' = computeOutCode(line.end.x, line.end.y, bottomLeft, topRight)
    /\ accept' = FALSE
    /\ iter' = 0
    /\ pc' = "clip_loop"
    /\ UNCHANGED <<mainVars, line>>

\* lines 116-119: both endpoints inside
ClipAccept ==
    /\ pc = "clip_loop"
    /\ BothInside(outcode0, outcode1)
    /\ accept' = TRUE
    /\ pc' = "clip_exit"
    /\ UNCHANGED <<mainVars, line, x0, y0, x1, y1, outcode0, outcode1, iter>>

\* lines 120-122: both endpoints beyond one side
ClipReject ==
    /\ pc = "clip_loop"
    /\ ~BothInside(outcode0, outcode1)
    /\ TriviallyOutside(outcode0, outcode1)
    /\ pc' = "clip_exit"
    /\ UNCHANGED <<mainVars, line, clipVars>>

\* mutant: the replaced endpoint keeps its old outcode
ClipTrimStale ==
    /\ pc = "clip_loop"
    /\ ~BothInside(outcode0, outcode1)
    /\ ~TriviallyOutside(outcode0, outcode1)
    /\ LET outcodeOut == OutcodeOut(outcode0, outcode1)
           p == TrimPoint(outcodeOut, x0, y0, x1, y1, bottomLeft, topRight)
       IN  IF outcodeOut = outcode0
           THEN /\ x0' = p.x
                /\ y0' = p.y
                /\ UNCHANGED <<x1, y1, outcode0, outcode1>>
           ELSE /\ x1' = p.x
                /\ y1' = p.y
                /\ UNCHANGED <<x0, y0, outcode0, outcode1>>
    /\ iter' = iter + 1
    /\ UNCHANGED <<pc, mainVars, line, accept>>

\* lines 123-152: one trim step
ClipTrim ==
    /\ pc = "clip_loop"
    /\ ~BothInside(outcode0, outcode1)
    /\ ~TriviallyOutside(outcode0, outcode1)
    /\ LET outcodeOut == OutcodeOut(outcode0, outcode1)
           p == TrimPoint(outcodeOut, x0, y0, x1, y1, bottomLeft, topRight)
       IN  IF outcodeOut = outcode0
           THEN /\ x0' = p.x
                /\ y0' = p.y
                /\ outcode0' = computeOutCode(p.x, p.y, bottomLeft, topRight)
                /\ UNCHANGED <<x1, y1, outcode1>>
           ELSE /\ x1' = p.x
                /\ y1' = p.y
                /\ outcode1' = computeOutCode(p.x, p.y, bottomLeft, topRight)
                /\ UNCHANGED <<x0, y0, outcode0>>
    /\ iter' = iter + 1
    /\ UNCHANGED <<pc, mainVars, line, accept>>

\* lines 155-160: write the endpoints back when accepted, return accept
ClipReturn ==
    /\ pc = "clip_exit"
    /\ line' = IF accept
               THEN Line_2(Point_2(x0, y0), Point_2(x1, y1))
               ELSE line
    /\ pc' = "clip_returned"
    /\ UNCHANGED <<mainVars, clipVars>>

----------------------------------------------------------------------------
(* main *)

\* std::fmod(a, m) for m > 0: the remainder has the sign of a
Fmod(a, m) == IF a >= 0 THEN a % m ELSE 0 - ((0 - a) % m)

\* lines 196-197: the angle brought into [0, 360)
NormalizeAngle(a) ==
    LET f == Fmod(a, 360) IN IF f < 0 THEN f + 360 ELSE f

\* std::cos of an angle of 0..90 degrees, to one decimal; only the angles
\* the model feeds to the general branch are tabulated
CosFirstQuadrant(r) ==
    CASE r = 37 -> <<4, 5>>
      [] r = 45 -> <<7, 10>>
      [] r = 53 -> <<3, 5>>

\* std::cos(degreesToRadians(a)) and std::sin(degreesToRadians(a)) for a
\* normalized angle a, reduced to the first quadrant
CosDeg(a) ==
    LET q == a \div 90
        r == a % 90
    IN  CASE q = 0 -> CosFirstQuadrant(r)
          [] q = 1 -> Neg(CosFirstQuadrant(90 - r))
          [] q = 2 -> Neg(CosFirstQuadrant(r))
          [] q = 3 -> CosFirstQuadrant(90 - r)

SinDeg(a) ==
    LET q == a \div 90
        r == a % 90
    IN  CASE q = 0 -> CosFirstQuadrant(90 - r)
          [] q = 1 -> CosFirstQuadrant(r)
          [] q = 2 -> Neg(CosFirstQuadrant(90 - r))
          [] q = 3 -> Neg(CosFirstQuadrant(r))

\* the largest k in lo..hi with k * k <= n
RECURSIVE IsqrtIn(_, _, _)
IsqrtIn(n, lo, hi) ==
    IF lo = hi THEN lo
    ELSE LET mid == (lo + hi + 1) \div 2
         IN  IF mid * mid <= n THEN IsqrtIn(n, mid, hi) ELSE IsqrtIn(n, lo, mid - 1)

\* std::sqrt, to the nearest half below
Sqrt(v) == Norm(IsqrtIn((4 * v[1]) \div v[2], 0, (4 * v[1]) \div v[2]), 2)

\* lines 201-208
width == Sub(topRight.x, bottomLeft.x)

height == Sub(topRight.y, bottomLeft.y)

diagonal == Sqrt(Add(Mul(width, width), Mul(height, height)))

center ==
    Point_2(Div(Add(bottomLeft.x, topRight.x), R(2)),
            Div(Add(bottomLeft.y, topRight.y), R(2)))

\* lines 186-190: the values of --angle and --step replace the defaults
ParseArgs ==
    /\ pc = "parse"
    /\ angleDegrees' = IF argAngle = <<>> THEN angleDegrees ELSE argAngle[1]
    /\ step' = IF argStep = <<>> THEN step ELSE argStep[1]
    /\ pc' = "check"
    /\ UNCHANGED <<argAngle, argStep, bottomLeft, topRight, hatchLines, y, x,
                   offset, exitCode, line, clipVars>>

\* mutant: only a negative step is refused
StepInvalidNegative(s) == Lt(s, R(0))

\* line 191: if (step <= 0)
StepInvalid(s) == Le(s, R(0))

\* lines 191-194: the error message and return 1
RejectStep ==
    /\ pc = "check"
    /\ StepInvalid(step)
    /\ exitCode' = 1
    /\ pc' = "exit"
    /\ UNCHANGED <<argAngle, argStep, angleDegrees, step, bottomLeft, topRight,
                   hatchLines, y, x, offset, line, clipVars>>

\* lines 196-208: normalize the angle (the derived values are definitions)
Normalize ==
    /\ pc = "check"
    /\ ~StepInvalid(step)
    /\ angleDegrees' = NormalizeAngle(angleDegrees)
    /\ pc' = "generate"
    /\ UNCHANGED <<argAngle, argStep, step, bottomLeft, topRight, hatchLines,
                   y, x, offset, exitCode, line, clipVars>>

\* the angle tests of lines 211, 217 and 223
IsHorizontal(a) == a = 0 \/ a = 360

IsHorizontal180(a) == a = 180 \/ a = -180

IsVertical(a) == a = 90 \/ a = -90 \/ a = 270 \/ a = -270

\* line 213: for (double y = bottomLeft.y; ...
EnterHorizontal ==
    /\ pc = "generate"
    /\ IsHorizontal(angleDegrees)
    /\ y' = bottomLeft.y
    /\ pc' = "horizontal"
    /\ UNCHANGED <<argAngle, argStep, angleDegrees, step, bottomLeft, topRight,
                   hatchLines, x, offset, exitCode, line, clipVars>>

\* mutant: the last line, at y = topRight.y, is left out
HorizontalContinueExclusive(yy) == Lt(yy, topRight.y)

\* line 213: y <= topRight.y
HorizontalContinue(yy) == Le(yy, topRight.y)

\* lines 213-215: one line of the 0 degree family, then y += step
HorizontalStep ==
    /\ pc = "horizontal"
    /\ HorizontalContinue(y)
    /\ hatchLines' = Append(hatchLines,
                            Line_2(Point_2(bottomLeft.x, y), Point_2(topRight.x, y)))
    /\ y' = Add(y, step)
    /\ UNCHANGED <<pc, argAngle, argStep, angleDegrees, step, bottomLeft,
                   topRight, x, offset, exitCode, line, clipVars>>

HorizontalDone ==
    /\ pc = "horizontal"
    /\ ~HorizontalContinue(y)
    /\ pc' = "output"
    /\ UNCHANGED <<mainVars, line, clipVars>>

\* line 219: for (double y = topRight.y; ...
EnterHorizontal180 ==
    /\ pc = "generate"
    /\ ~IsHorizontal(angleDegrees)
    /\ IsHorizontal180(angleDegrees)
    /\ y' = topRight.y
    /\ pc' = "horizontal180"
    /\ UNCHANGED <<argAngle, argStep, angleDegrees, step, bottomLeft, topRight,
                   hatchLines, x, offset, exitCode, line, clipVars>>

\* mutant: the last line, at y = bottomLeft.y, is left out
Horizontal180ContinueExclusive(yy) == Gt(yy, bottomLeft.y)

\* line 219: y >= bottomLeft.y
Horizontal180Continue(yy) == Ge(yy, bottomLeft.y)

\* lines 219-221: one line of the 180 degree family, then y -= step
Horizontal180Step ==
    /\ pc = "horizontal180"
    /\ Horizontal180Continue(y)
    /\ hatchLines' = Append(hatchLines,
                            Line_2(Point_2(bottomLeft.x, y), Point_2(topRight.x, y)))
    /\ y' = Sub(y, step)
    /\ UNCHANGED <<pc, argAngle, argStep, angleDegrees, step, bottomLeft,
                   topRight, x, offset, exitCode, line, clipVars>>

Horizontal180Done ==
    /\ pc = "horizontal180"
    /\ ~Horizontal180Continue(y)
    /\ pc' = "output"
    /\ UNCHANGED <<mainVars, line, clipVars>>

\* line 225: for (double x = bottomLeft.x; ...
EnterVertical ==
    /\ pc = "generate"
    /\ ~IsHorizontal(angleDegrees)
    /\ ~IsHorizontal180(angleDegrees)
    /\ IsVertical(angleDegrees)
    /\ x' = bottomLeft.x
    /\ pc' = "vertical"
    /\ UNCHANGED <<argAngle, argStep, angleDegrees, step, bottomLeft, topRight,
                   hatchLines, y, offset, exitCode, line, clipVars>>

\* lines 225-227: one line of the vertical family, then x += step
VerticalStep ==
    /\ pc = "vertical"
    /\ Le(x, topRight.x)
    /\ hatchLines' = Append(hatchLines,
                            Line_2(Point_2(x, bottomLeft.y), Point_2(x, topRight.y)))
    /\ x' = Add(x, step)
    /\ UNCHANGED <<pc, argAngle, argStep, angleDegrees, step, bottomLeft,
                   topRight, y, offset, exitCode, line, clipVars>>

VerticalDone ==
    /\ pc = "vertical"
    /\ ~Le(x, topRight.x)
    /\ pc' = "output"
    /\ UNCHANGED <<mainVars, line, clipVars>>

\* line 230: for (double offset = -diagonal / 2; ...
EnterGeneral ==
    /\ pc = "generate"
    /\ ~IsHorizontal(angleDegrees)
    /\ ~IsHorizontal180(angleDegrees)
    /\ ~IsVertical(angleDegrees)
    /\ offset' = Div(Neg(diagonal), R(2))
    /\ pc' = "general"
    /\ UNCHANGED <<argAngle, argStep, angleDegrees, step, bottomLeft, topRight,
                   hatchLines, y, x, exitCode, line, clipVars>>

\* lines 231-239: the candidate line at this offset
Candidate(off) ==
    LET dir == Point_2(CosDeg(angleDegrees), SinDeg(angleDegrees))
        perp == Point_2(Neg(dir.y), dir.x)
        half(v) == Div(Mul(v, diagonal), R(2))
    IN  Line_2(Point_2(Sub(Add(center.x, Mul(perp.x, off)), half(dir.x)),
                       Sub(Add(center.y, Mul(perp.y, off)), half(dir.y))),
               Point_2(Add(Add(center.x, Mul(perp.x, off)), half(dir.x)),
                       Add(Add(center.y, Mul(perp.y, off)), half(dir.y))))

\* lines 230-241: build the candidate and call clipLine on it
GeneralCandidate ==
    /\ pc = "general"
    /\ Le(offset, Div(diagonal, R(2)))
    /\ line' = Candidate(offset)
    /\ pc' = "clip_call"
    /\ UNCHANGED <<mainVars, clipVars>>

\* lines 241-242 and the increment of line 230: keep the line when clipLine
\* returned true, then offset += step
GeneralAfterClip ==
    /\ pc = "clip_returned"
    /\ hatchLines' = IF accept THEN Append(hatchLines, line) ELSE hatchLines
    /\ offset' = Add(offset, step)
    /\ pc' = "general"
    /\ UNCHANGED <<argAngle, argStep, angleDegrees, step, bottomLeft, topRight,
                   y, x, exitCode, line, clipVars>>

GeneralDone ==
    /\ pc = "general"
    /\ ~Le(offset, Div(diagonal, R(2)))
    /\ pc' = "output"
    /\ UNCHANGED <<mainVars, line, clipVars>>

\* lines 246-286: the log and the SVG file are written from hatchLines,
\* return 0
Output ==
    /\ pc = "output"
    /\ exitCode' = 0
    /\ pc' = "exit"
    /\ UNCHANGED <<argAngle, argStep, angleDegrees, step, bottomLeft, topRight,
                   hatchLines, y, x, offset, line, clipVars>>

\* values of --angle: the multiples of 90 degrees and some oblique angles
AngleInputs ==
    { 90 * k : k \in (0 - MaxQuarter)..MaxQuarter }
        \cup { 37, 45, 53, 135, 233, 307, -45, 405, -143 }

\* values of --step
StepInputs ==
    { R(i) : i \in 1..MaxStep } \cup { R(0), R(-1), <<3, 2>> }

\* line 178 gives the rectangle (0,0)-(20,10); other rectangles with
\* bottomLeft <= topRight stand for other contours
Rectangles ==
    { <<Point_2(R(0), R(0)), Point_2(R(20), R(10))>>,
      <<Point_2(R(-2), R(1)), Point_2(R(2), R(4))>>,
      <<Point_2(R(1), R(2)), Point_2(R(1), R(2))>>,
      <<Point_2(R(0), R(0)), Point_2(R(6), R(0))>> }

\* lines 174-184: the state before the arguments are read
Init ==
    /\ pc = "parse"
    /\ argAngle \in { <<>> } \cup { <<a>> : a \in AngleInputs }
    /\ argStep \in { <<>> } \cup { <<s>> : s \in StepInputs }
    /\ angleDegrees = 45
    /\ step = R(1)
    /\ \E rect \in Rectangles : bottomLeft = rect[1] /\ topRight = rect[2]
    /\ hatchLines = <<>>
    /\ y = R(0)
    /\ x = R(0)
    /\ offset = R(0)
    /\ line = Line_2(Point_2(R(0), R(0)), Point_2(R(0), R(0)))
    /\ x0 = R(0)
    /\ y0 = R(0)
    /\ x1 = R(0)
    /\ y1 = R(0)
    /\ outcode0 = INSIDE
    /\ outcode1 = INSIDE
    /\ accept = FALSE
    /\ iter = 0
    /\ exitCode = -1

Next ==
    \/ ParseArgs
    \/ RejectStep
    \/ Normalize
    \/ EnterHorizontal
    \/ HorizontalStep
    \/ HorizontalDone
    \/ EnterHorizontal180
    \/ Horizontal180Step
    \/ Horizontal180Done
    \/ EnterVertical
    \/ VerticalStep
    \/ VerticalDone
    \/ EnterGeneral
    \/ GeneralCandidate
    \/ ClipEntry
    \/ ClipAccept
    \/ ClipReject
    \/ ClipTrim
    \/ ClipReturn
    \/ GeneralAfterClip
    \/ GeneralDone
    \/ Output

Spec == Init /\ [][Next]_vars

----------------------------------------------------------------------------
(* clipLine on its own: every segment of a grid against every rectangle    *)
(* of a family, bottomLeft <= topRight on both axes                        *)

ClipBottomLeft == Point_2(R(0), R(1))

ClipRects == { Point_2(R(tx), R(ty)) : tx \in 0..RectMax, ty \in 1..(RectMax + 1) }

GridX == (0 - Margin)..(RectMax + Margin)

GridY == (1 - Margin)..(RectMax + 1 + Margin)

GridPoints == { Point_2(R(gx), R(gy)) : gx \in GridX, gy \in GridY }

InitClip ==
    /\ pc = "clip_call"
    /\ argAngle = <<>>
    /\ argStep = <<>>
    /\ angleDegrees = 45
    /\ step = R(1)
    /\ bottomLeft = ClipBottomLeft
    /\ topRight \in ClipRects
    /\ hatchLines = <<>>
    /\ y = R(0)
    /\ x = R(0)
    /\ offset = R(0)
    /\ line \in { Line_2(s, e) : s \in GridPoints, e \in GridPoints }
    /\ x0 = R(0)
    /\ y0 = R(0)
    /\ x1 = R(0)
    /\ y1 = R(0)
    /\ outcode0 = INSIDE
    /\ outcode1 = INSIDE
    /\ accept = FALSE
    /\ iter = 0
    /\ exitCode = -1

NextClip ==
    \/ ClipEntry
    \/ ClipAccept
    \/ ClipReject
    \/ ClipTrim
    \/ ClipReturn

SpecClip == InitClip /\ [][NextClip]_vars

----------------------------------------------------------------------------
(* Geometry used to state the properties of clipLine *)

\* p lies inside or on the rectangle
InRect(p, bl, tr) ==
    Le(bl.x, p.x) /\ Le(p.x, tr.x) /\ Le(bl.y, p.y) /\ Le(p.y, tr.y)

\* (b - a) x (c - a)
Cross(a, b, c) ==
    Sub(Mul(Sub(b.x, a.x), Sub(c.y, a.y)), Mul(Sub(b.y, a.y), Sub(c.x, a.x)))

RMin(a, b) == IF Lt(b, a) THEN b ELSE a

RMax(a, b) == IF Lt(a, b) THEN b ELSE a

\* p lies on the closed segment from a to b
OnSegment(p, a, b) ==
    /\ Cross(a, b, p) = R(0)
    /\ Le(RMin(a.x, b.x), p.x) /\ Le(p.x, RMax(a.x, b.x))
    /\ Le(RMin(a.y, b.y), p.y) /\ Le(p.y, RMax(a.y, b.y))

Corners(bl, tr) ==
    { Point_2(bl.x, bl.y), Point_2(tr.x, bl.y), Point_2(tr.x, tr.y), Point_2(bl.x, tr.y) }

\* the closed segment l meets the closed rectangle: neither axis separates
\* their extents and the rectangle's corners are not strictly on one side of
\* the line through l
SegIntersectsRect(l, bl, tr) ==
    /\ Le(RMin(l.start.x, l.end.x), tr.x) /\ Ge(RMax(l.start.x, l.end.x), bl.x)
    /\ Le(RMin(l.start.y, l.end.y), tr.y) /\ Ge(RMax(l.start.y, l.end.y), bl.y)
    /\ ~(\A c \in Corners(bl, tr) : Gt(Cross(l.start, l.end, c), R(0)))
    /\ ~(\A c \in Corners(bl, tr) : Lt(Cross(l.start, l.end, c), R(0)))

\* p is strictly beyond the side of the rectangle named by bit
Beyond(p, bit, bl, tr) ==
    CASE bit = LEFT -> Lt(p.x, bl.x)
      [] bit = RIGHT -> Gt(p.x, tr.x)
      [] bit = BOTTOM -> Lt(p.y, bl.y)
      [] bit = TOP -> Gt(p.y, tr.y)

\* p is on the line carrying the side of the rectangle named by bit
OnSideLine(p, bit, bl, tr) ==
    CASE bit = LEFT -> p.x = bl.x
      [] bit = RIGHT -> p.x = tr.x
      [] bit = BOTTOM -> p.y = bl.y
      [] bit = TOP -> p.y = tr.y

\* q, a point of the segment from p inside the rectangle, is the first such
\* point seen from p: it is p itself, or it is on the line of a side that p
\* is strictly beyond (every point of the segment before q is then beyond
\* that side too)
FirstInsideFrom(q, p, bl, tr) ==
    \/ q = p
    \/ \E bit \in OutCodeBits : Beyond(p, bit, bl, tr) /\ OnSideLine(q, bit, bl, tr)

BitCount(code) == Cardinality({ b \in OutCodeBits : HasBit(code, b) })

\* the bits of the axis the trim step corrects for outcodeOut
TestedAxisBits(oc) ==
    IF HasBit(oc, TOP) \/ HasBit(oc, BOTTOM) THEN {TOP, BOTTOM} ELSE {LEFT, RIGHT}

P0 == Point_2(x0, y0)

P1 == Point_2(x1, y1)

\* the loop is about to take a trim step
TrimEnabled ==
    /\ pc = "clip_loop"
    /\ ~BothInside(outcode0, outcode1)
    /\ ~TriviallyOutside(outcode0, outcode1)

\* this step is a trim step
TrimStep == pc = "clip_loop" /\ pc' = "clip_loop"

----------------------------------------------------------------------------
(* Properties of clipLine, under SpecClip *)

\* C2: when the loop of clipLine is left, accept (the value returned) is
\* true exactly when the input segment meets the closed rectangle: true if
\* it intersects, false if it lies entirely outside.
ClipDecidesIntersection ==
    pc = "clip_exit" => (accept <=> SegIntersectsRect(line, bottomLeft, topRight))

\* a segment that is rejected only after an endpoint has been trimmed
ClipRejectsAfterTrim ==
    /\ pc = "clip_exit" /\ ~accept
    /\ (P0 # line.start \/ P1 # line.end)

\* C3: the clip loop terminates after a bounded number of trim steps: a trim
\* step is never due once four have been taken, so the loop is then at
\* terminal accept or terminal reject (in the loop exactly one of accept,
\* reject and trim is due).
ClipTerminates == TrimEnabled => iter < 4

\* the loop has been left, accepting, after trimming both endpoints
ClipLoopLeftAfterTwoTrims ==
    /\ pc = "clip_exit" /\ accept /\ P0 # P1
    /\ P0 # line.start /\ P1 # line.end
    /\ iter >= 2
    /\ \E bit \in OutCodeBits : OnSideLine(P0, bit, bottomLeft, topRight)
    /\ \E bit \in OutCodeBits : OnSideLine(P1, bit, bottomLeft, topRight)

\* C7: a line whose endpoints are both inside or on the rectangle is
\* accepted with its endpoints untouched (no trim step), and the write-back
\* leaves the caller's line as it was; the line an accepted call writes back
\* has both endpoints inside or on the rectangle, so clipping it again
\* returns it unchanged.
IdempotentClip ==
    /\ [](pc = "clip_exit" /\ InRect(line.start, bottomLeft, topRight)
                           /\ InRect(line.end, bottomLeft, topRight)
            => accept /\ iter = 0 /\ P0 = line.start /\ P1 = line.end)
    /\ [](pc = "clip_returned" /\ accept
            => InRect(line.start, bottomLeft, topRight)
               /\ InRect(line.end, bottomLeft, topRight))
    /\ [][pc = "clip_exit" /\ InRect(line.start, bottomLeft, topRight)
                           /\ InRect(line.end, bottomLeft, topRight)
            => line' = line]_vars

\* a line with both endpoints on the boundary of the rectangle has been
\* clipped
ClipOfBoundaryLineDone ==
    /\ pc = "clip_returned"
    /\ line.start # line.end
    /\ InRect(line.start, bottomLeft, topRight)
    /\ InRect(line.end, bottomLeft, topRight)
    /\ \E bit \in OutCodeBits : OnSideLine(line.start, bit, bottomLeft, topRight)
    /\ \E bit \in OutCodeBits : OnSideLine(line.end, bit, bottomLeft, topRight)
    /\ P0 = line.start /\ P1 = line.end

\* C8: whenever a trim step is about to run, the denominator of the branch
\* it takes (y1 - y0 for TOP or BOTTOM, x1 - x0 for RIGHT or LEFT) is a
\* nonzero finite number.
NoDivisionByZero ==
    TrimEnabled =>
        LET dv == Divisor(OutcodeOut(outcode0, outcode1), x0, y0, x1, y1)
        IN  dv[1] # 0 /\ dv[2] # 0

\* a trim step is about to run after an earlier one replaced an endpoint
SecondTrimEnabled ==
    TrimEnabled /\ (P0 # line.start \/ P1 # line.end)

\* C9, as claimed: every trim step leaves the endpoint it replaces with
\* strictly fewer outcode bits than it had.
TrimStrictlyFewerBits ==
    [][TrimStep =>
        IF OutcodeOut(outcode0, outcode1) = outcode0
        THEN BitCount(outcode0') < BitCount(outcode0)
        ELSE BitCount(outcode1') < BitCount(outcode1)]_vars

\* C9, amended: every trim step clears both bits of the axis it corrects in
\* the outcode of the endpoint it replaces, and that outcode never has more
\* bits than before (a bit of the other axis may appear, so the count can
\* stay equal).
TrimClearsTestedAxis ==
    [][TrimStep =>
        LET oc == OutcodeOut(outcode0, outcode1)
            new == IF oc = outcode0 THEN outcode0' ELSE outcode1'
        IN  /\ \A b \in TestedAxisBits(oc) : ~HasBit(new, b)
            /\ BitCount(new) <= BitCount(oc)]_vars

\* a trim step has left the first endpoint on a side line but still outside
TrimLeftEndpointOutside ==
    /\ pc = "clip_loop"
    /\ P0 # line.start
    /\ outcode0 # INSIDE
    /\ BitCount(outcode0) = BitCount(computeOutCode(line.start.x, line.start.y,
                                                     bottomLeft, topRight))

\* C10: when clipLine accepts, the endpoints it writes back are the
\* intersection of the input segment with the closed rectangle in the input's
\* orientation: each lies on the input segment and in the rectangle, the new
\* start is the first point inside seen from the old start and the new end
\* the first point inside seen from the old end; the write-back stores exactly
\* these endpoints, and when clipLine rejects, the line is left as it was.
ClipIsExactIntersection ==
    /\ [](pc = "clip_exit" /\ accept =>
            /\ OnSegment(P0, line.start, line.end)
            /\ OnSegment(P1, line.start, line.end)
            /\ InRect(P0, bottomLeft, topRight)
            /\ InRect(P1, bottomLeft, topRight)
            /\ FirstInsideFrom(P0, line.start, bottomLeft, topRight)
            /\ FirstInsideFrom(P1, line.end, bottomLeft, topRight))
    /\ [][pc = "clip_exit" =>
            line' = IF accept THEN Line_2(P0, P1) ELSE line]_vars

\* an accepted call has written back a line trimmed at both ends
ClipWroteTrimmedLine ==
    /\ pc = "clip_returned" /\ accept
    /\ line = Line_2(P0, P1)
    /\ line.start # line.end
    /\ computeOutCode(line.start.x, line.start.y, bottomLeft, topRight) = INSIDE
    /\ \E b1 \in {TOP, BOTTOM}, b2 \in {LEFT, RIGHT} :
          /\ OnSideLine(line.start, b1, bottomLeft, topRight)
          /\ OnSideLine(line.end, b2, bottomLeft, topRight)

----------------------------------------------------------------------------
(* Properties of main, under Spec *)

Floor(v) == v[1] \div v[2]

Reverse(sq) == [i \in 1..Len(sq) |-> sq[Len(sq) + 1 - i]]

HorizontalAt(yy) == Line_2(Point_2(bottomLeft.x, yy), Point_2(topRight.x, yy))

\* the lines at y = bottomLeft.y + k*step, k = 0, 1, ... while y <= topRight.y
ExpectedHorizontal ==
    [k \in 1..(Floor(Div(height, step)) + 1) |->
        HorizontalAt(Add(bottomLeft.y, Mul(R(k - 1), step)))]

\* the lines at y = topRight.y - k*step, k = 0, 1, ... while y >= bottomLeft.y
ExpectedTopDown ==
    [k \in 1..(Floor(Div(height, step)) + 1) |->
        HorizontalAt(Sub(topRight.y, Mul(R(k - 1), step)))]

StepDividesHeight == Div(height, step)[2] = 1

\* generation has finished for an --angle congruent to a modulo 360
GeneratedForAngle(a) ==
    /\ pc \in {"output", "exit"}
    /\ exitCode # 1
    /\ argAngle # <<>>
    /\ argAngle[1] % 360 = a

\* control points of main after the step check has passed
PastStepCheck ==
    {"generate", "horizontal", "horizontal180", "vertical", "general",
     "clip_call", "clip_loop", "clip_exit", "clip_returned", "output"}

\* C1: every line of the hatch pattern, at every moment, has both endpoints
\* inside or on the rectangle.
Containment ==
    \A i \in 1..Len(hatchLines) :
        /\ InRect(hatchLines[i].start, bottomLeft, topRight)
        /\ InRect(hatchLines[i].end, bottomLeft, topRight)

\* an oblique pattern is complete and holds a line that clipLine trimmed to
\* run from one side of the rectangle to another
ObliquePatternDone ==
    /\ pc = "exit"
    /\ exitCode = 0
    /\ ~IsHorizontal(angleDegrees)
    /\ ~IsHorizontal180(angleDegrees)
    /\ ~IsVertical(angleDegrees)
    /\ \E i \in 1..Len(hatchLines) :
          /\ hatchLines[i].start # hatchLines[i].end
          /\ hatchLines[i].start.y = bottomLeft.y
          /\ hatchLines[i].end.x = topRight.x

\* C4: a step <= 0 is refused before generation: the program exits with
\* code 1 at the check and the pattern stays empty; generation is reached
\* only with step > 0.
InvalidStepRejected ==
    /\ pc \in PastStepCheck => Gt(step, R(0))
    /\ pc # "parse" /\ Le(step, R(0)) =>
          /\ hatchLines = <<>>
          /\ pc \in {"check", "exit"}
          /\ pc = "exit" => exitCode = 1
    /\ exitCode = 1 => Le(step, R(0)) /\ hatchLines = <<>>

\* the program has exited with the error for --step -1
NegativeStepRefused ==
    pc = "exit" /\ exitCode = 1 /\ step = R(-1) /\ argStep = <<R(-1)>>

=============================================================================
